---- MODULE Spec2Model ----
(***************************************************************************)
(* Model of the installation orchestrator of arch-z (src/z.py):            *)
(* perform_installation, the command execution helpers run_command and     *)
(* run_live_command, check_dependencies and cleanup_mount.                 *)
(*                                                                         *)
(* perform_installation is straight-line code; it is modelled as the table *)
(* Program of its statements (each with its source line) and one action    *)
(* per kind of statement.  The host (which tools exist, what is mounted at *)
(* /mnt, what every external command returns) is the environment: exit     *)
(* statuses are chosen nondeterministically wherever the host decides.     *)
(***************************************************************************)
EXTENDS Integers, Sequences, FiniteSets, TLC

VARIABLES
    dry_run,        \* config.dry_run
    root_password,  \* config.root_password
    user_password,  \* config.user_password
    format_efi,     \* what the caller wants done with the EFI partition: format
                    \* it, or reuse it as it is; InstallConfig (z.py:19-30) has
                    \* no field for it and the code never reads it
    absent,         \* host: the tools that are NOT on PATH
    mnt0,           \* host: the mount stack of /mnt when the run starts
    mnt,            \* host: the mount stack of /mnt (last = visible mount)
    efi,            \* host: /mnt/efi is a mount point inside the visible mount
    fs,             \* host: device / filesystem content changed by commands
    pc,             \* index into Program of the next statement
    cm_pc,          \* position inside cleanup_mount ("idle" outside of it)
    mount_check,    \* mount_check.returncode (z.py:220), -1 before
    subvol_has_at,  \* any(line.endswith(" @") ...) over subvol_list (z.py:237)
    sprout_partuuid,\* the local sprout_partuuid
    outcome,        \* how perform_installation ended, "running" before
    sink,           \* the lines delivered to log_func, in order
    stdout,         \* the lines print()ed by run_command (not through log_func)
    trace,          \* history: every external process spawned, with its status
    cm_returns,     \* history: the value every cleanup_mount call returned
    executed,       \* history: the statements of Program executed, in order
    grub_cfg,       \* /boot/grub/grub.cfg, as the sed of install_script sees it
    sed_orig,       \* history: grub_cfg before the first rewrite
    sed_first,      \* history: grub_cfg after the first rewrite
    sed_runs,       \* history: how many times the rewrite was applied
    flow,           \* which program runs: "cli" (z.py main) or "tui" (z_tui.py)
    cli_pc,         \* position of main()
    screen_stack,   \* the screens pushed by ZInstallerApp, last = active
    app_running,    \* the TUI application has not exited
    notified,       \* the last self.notify(...) message
    seed_device,    \* app.seed_device / main's seed_device ("" = None)
    sprout_device,  \* app.sprout_device / main's sprout_device
    efi_device,     \* app.efi_device / main's efi_device
    runs,           \* history: the configurations perform_installation was
                    \* called with
    workers,        \* the InstallWork threads started: "alive" or "dead"
    worker_outcome, \* how perform_installation ended in the last run
    timer,          \* InstallScreen.timer: "none", "running", "stopped"
    btn_done_disabled, \* the disabled attribute of the Done button
    install_log     \* the lines of the Log widget of InstallScreen

vars == << dry_run, root_password, user_password, format_efi, absent, mnt0, mnt, efi, fs, pc, cm_pc, mount_check,
           subvol_has_at, sprout_partuuid, outcome, sink, stdout, trace,
           cm_returns, executed, grub_cfg, sed_orig, sed_first, sed_runs,
           flow, cli_pc, screen_stack, app_running, notified, seed_device,
           sprout_device, efi_device, runs, workers, worker_outcome, timer,
           btn_done_disabled, install_log >>

-----------------------------------------------------------------------------
(* Bounds *)

\* at most this many tools are missing from the host
MaxAbsent == 1

\* every streamed process writes this many lines to its stdout
OutLines == 2

\* the longest grub.cfg the rewrite is applied to, in pieces of text
MaxFileLen == 4

\* how many times the rewrite is applied to one file
MaxSedRuns == 2

-----------------------------------------------------------------------------
(* The host's tools *)

\* required_tools of check_dependencies
required_tools ==
    { "lsblk", "btrfs", "mkfs.btrfs", "mkfs.fat", "pacstrap", "genfstab",
      "arch-chroot" }

\* every program perform_installation and cleanup_mount can invoke on the host
HostTools ==
    required_tools \cup
    { "blkid", "mountpoint", "mount", "umount", "btrfstune", "fuser" }

\* shutil.which(tool)
which(tool) == tool \notin absent

-----------------------------------------------------------------------------
(* The external commands of perform_installation: the program each one     *)
(* starts, and whether it is given to a shell (shell=True) or as an        *)
(* argument vector.                                                        *)

Cmd(tool, shell) == [tool |-> tool, shell |-> shell]

Commands ==
    [ c \in { "blkid", "mountpoint", "mkfs.btrfs SEED", "mkfs.btrfs SPROUT",
              "mkfs.fat EFI", "mount subvol=/ seed", "btrfs subvolume list",
              "btrfs subvolume delete", "btrfs su cr", "mount subvol=/@ seed",
              "pacstrap", "mount efi", "genfstab -U", "arch-chroot",
              "btrfstune -S 1", "btrfs device add", "mount subvol=/@ sprout",
              "genfstab -t PARTUUID", "umount -R", "fuser -k -m",
              "umount -R -l" } |->
        CASE c = "blkid"                  -> Cmd("blkid", TRUE)
          [] c = "mountpoint"             -> Cmd("mountpoint", FALSE)
          [] c = "mkfs.btrfs SEED"        -> Cmd("mkfs.btrfs", TRUE)
          [] c = "mkfs.btrfs SPROUT"      -> Cmd("mkfs.btrfs", TRUE)
          [] c = "mkfs.fat EFI"           -> Cmd("mkfs.fat", TRUE)
          [] c = "mount subvol=/ seed"    -> Cmd("mount", TRUE)
          [] c = "btrfs subvolume list"   -> Cmd("btrfs", TRUE)
          [] c = "btrfs subvolume delete" -> Cmd("btrfs", TRUE)
          [] c = "btrfs su cr"            -> Cmd("btrfs", TRUE)
          [] c = "mount subvol=/@ seed"   -> Cmd("mount", TRUE)
          [] c = "pacstrap"               -> Cmd("pacstrap", FALSE)
          [] c = "mount efi"              -> Cmd("mount", TRUE)
          [] c = "genfstab -U"            -> Cmd("genfstab", FALSE)
          [] c = "arch-chroot"            -> Cmd("arch-chroot", FALSE)
          [] c = "btrfstune -S 1"         -> Cmd("btrfstune", TRUE)
          [] c = "btrfs device add"       -> Cmd("btrfs", TRUE)
          [] c = "mount subvol=/@ sprout" -> Cmd("mount", TRUE)
          [] c = "genfstab -t PARTUUID"   -> Cmd("genfstab", FALSE)
          [] c = "umount -R"              -> Cmd("umount", TRUE)
          [] c = "fuser -k -m"            -> Cmd("fuser", TRUE)
          [] c = "umount -R -l"           -> Cmd("umount", TRUE) ]

-----------------------------------------------------------------------------
(* perform_installation, statement by statement.                           *)
(*   kind: check_dependencies | log | assign (of sprout_partuuid)          *)
(*         | run (the local helper run, streamed by run_live_command)      *)
(*         | capture (run with capture_output=True, so run_command)        *)
(*         | mountpoint, genfstab (subprocess.run called directly)         *)
(*         | cleanup (a call of cleanup_mount)                             *)
(*   cond: the if the statement stands under                               *)
(*         always | live (not config.dry_run) | dry (config.dry_run)       *)
(*         | mounted (live and mount_check.returncode == 0)                *)
(*         | has_at (live and the subvolume list names @)                  *)

St(line, kind, cmd, cond) ==
    [line |-> line, kind |-> kind, cmd |-> cmd, cond |-> cond]

Statements ==
    << St(188, "check_dependencies", "", "always"),
       St(206, "log", "--- Starting Installation ---", "always"),
       St(210, "assign", "DRY-RUN-UUID-1234", "dry"),
       St(213, "capture", "blkid", "live"),
       St(215, "log", "Sprout PARTUUID", "always"),
       St(220, "mountpoint", "mountpoint", "live"),
       St(222, "log", "/mnt is already mounted. Unmounting...", "mounted"),
       St(223, "cleanup", "/mnt", "mounted"),
       St(225, "log", "Creating filesystems...", "always"),
       St(226, "run", "mkfs.btrfs SEED", "always"),
       St(227, "run", "mkfs.btrfs SPROUT", "always"),
       St(228, "run", "mkfs.fat EFI", "always"),
       St(229, "log", "Filesystems created successfully.", "always"),
       St(232, "run", "mount subvol=/ seed", "always"),
       St(236, "capture", "btrfs subvolume list", "live"),
       St(238, "run", "btrfs subvolume delete", "has_at"),
       St(240, "run", "btrfs su cr", "always"),
       St(241, "cleanup", "/mnt", "always"),
       St(242, "run", "mount subvol=/@ seed", "always"),
       St(245, "log", "Installing packages", "always"),
       St(246, "run", "pacstrap", "always"),
       St(247, "run", "mount efi", "always"),
       St(252, "genfstab", "genfstab -U", "live"),
       St(254, "log", "[DRY RUN] Would generate fstab", "dry"),
       St(285, "run", "arch-chroot", "always"),
       St(291, "log", "--- Finalizing Seed/Sprout setup ---", "always"),
       St(292, "cleanup", "/mnt", "always"),
       St(294, "log", "Converting to a seed device...", "always"),
       St(295, "run", "btrfstune -S 1", "always"),
       St(297, "log", "Mounting seed device to add sprout...", "always"),
       St(298, "run", "mount subvol=/@ seed", "always"),
       St(300, "log", "Adding sprout device...", "always"),
       St(301, "run", "btrfs device add", "always"),
       St(303, "log", "Unmounting and remounting sprout device...", "always"),
       St(304, "cleanup", "/mnt", "always"),
       St(305, "run", "mount subvol=/@ sprout", "always"),
       St(307, "log", "Mounting EFI partition...", "always"),
       St(308, "run", "mount efi", "always"),
       St(310, "log", "Generating final fstab with PARTUUIDs...", "always"),
       St(313, "genfstab", "genfstab -t PARTUUID", "live"),
       St(315, "log", "[DRY RUN] Would generate final fstab", "dry"),
       St(317, "log", "banner top", "always"),
       St(318, "log", "INSTALLATION COMPLETE", "always"),
       St(319, "log", "banner bottom", "always") >>

\* a cleanup_mount("/mnt") put before the completion banner
Program_UnmountAtEnd ==
    SubSeq(Statements, 1, Len(Statements) - 3) \o
    << St(316, "cleanup", "/mnt", "always") >> \o
    SubSeq(Statements, Len(Statements) - 2, Len(Statements))

\* the first mount of the EFI partition (line 247) put after the first fstab
\* (lines 250-254) instead of before it
Program_EfiAfterFstab ==
    [i \in 1..Len(Statements) |->
        CASE Statements[i].line = 247 -> St(252, "genfstab", "genfstab -U", "live")
          [] Statements[i].line = 252 -> St(254, "log", "[DRY RUN] Would generate fstab", "dry")
          [] Statements[i].line = 254 -> St(247, "run", "mount efi", "always")
          [] OTHER -> Statements[i]]

\* the stale-subvolume delete (line 238) put after the create (line 240)
Program_CreateBeforeDelete ==
    [i \in 1..Len(Statements) |->
        CASE Statements[i].line = 238 -> St(240, "run", "btrfs su cr", "always")
          [] Statements[i].line = 240 -> St(238, "run", "btrfs subvolume delete", "has_at")
          [] OTHER -> Statements[i]]

\* a final fstab generated with -U like the first one
Program_FinalFstabByUuid ==
    [i \in 1..Len(Statements) |->
        IF Statements[i].line = 313
          THEN St(313, "genfstab", "genfstab -U", "live")
          ELSE Statements[i]]

\* the sprout device mounted without the cleanup_mount of line 304 before it
Program_NoUnmountBeforeSprout ==
    [i \in 1..Len(Statements) |->
        IF Statements[i].line = 304
          THEN St(304, "log", "Unmounting /mnt skipped", "always")
          ELSE Statements[i]]

\* the body of perform_installation
Program == Statements

\* pc = End: past the last statement
End == Len(Program) + 1

-----------------------------------------------------------------------------
(* The host *)

\* the exit statuses the host can give a command started through a shell or
\* found on PATH: 127 from the shell when the program does not exist
ExitCodes(c) == IF which(Commands[c].tool) THEN {0, 1} ELSE {127}

\* umount fails when nothing is mounted at /mnt, and may fail (busy) or
\* succeed when something is
UmountCodes(c) ==
    IF ~which(Commands[c].tool) THEN {127}
    ELSE IF mnt = << >> THEN {32}
    ELSE {0, 32}

\* mountpoint -q /mnt
MountpointCode == IF mnt # << >> THEN 0 ELSE 32

\* Popen / subprocess.run of an argument vector whose program does not exist
\* raise FileNotFoundError before any process is started
NotFound(c) == ~Commands[c].shell /\ ~which(Commands[c].tool)

FsInit ==
    [ formatted |-> {}, subvol_at |-> FALSE, installed |-> FALSE,
      fstab |-> "none", configured |-> FALSE, seed_flag |-> FALSE,
      sprout_added |-> FALSE ]

\* what a command that exits 0 does to the devices and their content
FsAfter(c, f) ==
    CASE c = "mkfs.btrfs SEED"   -> [f EXCEPT !.formatted = @ \cup {"seed"}]
      [] c = "mkfs.btrfs SPROUT" -> [f EXCEPT !.formatted = @ \cup {"sprout"}]
      [] c = "mkfs.fat EFI"      -> [f EXCEPT !.formatted = @ \cup {"efi"}]
      [] c = "btrfs subvolume delete" -> [f EXCEPT !.subvol_at = FALSE]
      [] c = "btrfs su cr"       -> [f EXCEPT !.subvol_at = TRUE]
      [] c = "pacstrap"          -> [f EXCEPT !.installed = TRUE]
      [] c = "arch-chroot"       -> [f EXCEPT !.configured = TRUE]
      [] c = "btrfstune -S 1"    -> [f EXCEPT !.seed_flag = TRUE]
      [] c = "btrfs device add"  -> [f EXCEPT !.sprout_added = TRUE]
      [] c = "genfstab -U"       -> [f EXCEPT !.fstab = "UUID"]
      [] c = "genfstab -t PARTUUID" -> [f EXCEPT !.fstab = "PARTUUID"]
      [] OTHER -> f

\* what a command that exits 0 does to the mount stack of /mnt
MntAfter(c, m) ==
    CASE c = "mount subvol=/ seed"    -> Append(m, "seed:/")
      [] c = "mount subvol=/@ seed"   -> Append(m, "seed:/@")
      [] c = "mount subvol=/@ sprout" -> Append(m, "sprout:/@")
      [] c \in {"umount -R", "umount -R -l"} ->
            IF m = << >> THEN m ELSE SubSeq(m, 1, Len(m) - 1)
      [] OTHER -> m

\* ... and to /mnt/efi: mounted by mount efi, gone with the mount it was in,
\* hidden by a mount put over /mnt
EfiAfter(c, e) ==
    CASE c = "mount efi" -> TRUE
      [] c \in {"mount subvol=/ seed", "mount subvol=/@ seed",
                "mount subvol=/@ sprout", "umount -R", "umount -R -l"} -> FALSE
      [] OTHER -> e

\* an entry of trace: a process was started by the statement at Program[at]
Spawn(c, rc, at) == [cmd |-> c, rc |-> rc, at |-> at]

\* a line of the sink
\* (n: for a line a process wrote, its number in the output of the process)
Line(kind, text) == [kind |-> kind, text |-> text, n |-> 0]

\* the i-th line the process of command c writes to its stdout
OutLine(c, i) == [kind |-> "output", text |-> c, n |-> i]

\* a loop that delivers the last line read first
OutputOf_Reversed(c) == [i \in 1..OutLines |-> OutLine(c, OutLines + 1 - i)]

\* for line in process.stdout: log_func(line.rstrip())
OutputOf(c) == [i \in 1..OutLines |-> OutLine(c, i)]

-----------------------------------------------------------------------------
(* Initial states: a configuration and a host *)

\* the state of the user interfaces (z.py main, z_tui.py)
ui_vars ==
    << flow, cli_pc, screen_stack, app_running, notified, seed_device,
       sprout_device, efi_device, runs, workers, worker_outcome, timer,
       btn_done_disabled, install_log >>

\* a user interface that has handed its configuration to
\* perform_installation: nothing of it changes during the run
UiIdle ==
    /\ flow = "cli"
    /\ cli_pc = "run"
    /\ screen_stack = << >>
    /\ app_running = FALSE
    /\ notified = ""
    /\ seed_device = "/dev/vda1"
    /\ sprout_device = "/dev/vda2"
    /\ efi_device = "/dev/vda3"
    /\ runs = << >>
    /\ workers = << >>
    /\ worker_outcome = "running"
    /\ timer = "none"
    /\ btn_done_disabled = TRUE
    /\ install_log = << >>

\* the (root_password, user_password) pairs a configuration is given
Passwords == { << "secret-a", "secret-b" >>, << "secret-b", "secret-a" >> }

Init ==
    /\ dry_run \in BOOLEAN
    /\ format_efi \in BOOLEAN
    /\ absent \in {A \in SUBSET HostTools : Cardinality(A) <= MaxAbsent}
    /\ \E p \in Passwords : root_password = p[1] /\ user_password = p[2]
    /\ mnt0 \in { << >>, << "stale" >> }
    /\ mnt = mnt0
    /\ efi = FALSE
    /\ fs = FsInit
    /\ pc = 1
    /\ cm_pc = "idle"
    /\ mount_check = -1
    /\ subvol_has_at = FALSE
    /\ sprout_partuuid = ""
    /\ outcome = "running"
    /\ sink = << >>
    /\ stdout = << >>
    /\ trace = << >>
    /\ cm_returns = << >>
    /\ executed = << >>
    /\ grub_cfg = << >>
    /\ sed_orig = << >>
    /\ sed_first = << >>
    /\ sed_runs = 0
    /\ UiIdle

-----------------------------------------------------------------------------
(* perform_installation *)

Cur == Program[pc]

\* the if a statement stands under
CondHolds(cond) ==
    CASE cond = "always"  -> TRUE
      [] cond = "live"    -> ~dry_run
      [] cond = "dry"     -> dry_run
      [] cond = "mounted" -> ~dry_run /\ mount_check = 0
      [] cond = "has_at"  -> ~dry_run /\ subvol_has_at

\* perform_installation is at statement pc, outside of cleanup_mount
At(kind) ==
    /\ outcome = "running"
    /\ cm_pc = "idle"
    /\ pc < End
    /\ Cur.kind = kind
    /\ CondHolds(Cur.cond)

\* the statement at pc is executed
Exec == executed' = Append(executed, pc)

host == << absent, mnt0, dry_run, format_efi, root_password, user_password,
          grub_cfg, sed_orig, sed_first, sed_runs, ui_vars >>
locals == << mount_check, subvol_has_at, sprout_partuuid >>

\* a statement whose if is not taken
SkipStatement ==
    /\ outcome = "running"
    /\ cm_pc = "idle"
    /\ pc < End
    /\ ~CondHolds(Cur.cond)
    /\ pc' = pc + 1
    /\ UNCHANGED << host, locals, mnt, efi, fs, cm_pc, outcome, sink, stdout,
                    trace, cm_returns >>
    /\ UNCHANGED executed

\* a required_tools loop that stops short of its last entry
missing_SkipsLast ==
    {tool \in required_tools \ {"arch-chroot"} : ~which(tool)}

\* check_dependencies: missing
missing == {tool \in required_tools : ~which(tool)}

\* try: check_dependencies(log_func) / except RuntimeError: return
CheckDependencies ==
    /\ At("check_dependencies")
    /\ Exec
    /\ IF missing # {}
         THEN /\ sink' = Append(sink, Line("missing", "Error: Missing required tools"))
              /\ outcome' = "returned"
              /\ pc' = pc
         ELSE /\ sink' = sink
              /\ outcome' = outcome
              /\ pc' = pc + 1
    /\ UNCHANGED << host, locals, mnt, efi, fs, cm_pc, stdout, trace,
                    cm_returns >>

\* log_func(...) of perform_installation
Log ==
    /\ At("log")
    /\ Exec
    /\ sink' = Append(sink, Line("status", Cur.cmd))
    /\ pc' = pc + 1
    /\ UNCHANGED << host, locals, mnt, efi, fs, cm_pc, outcome, stdout,
                    trace, cm_returns >>

\* sprout_partuuid = "DRY-RUN-UUID-1234"
Assign ==
    /\ At("assign")
    /\ Exec
    /\ sprout_partuuid' = Cur.cmd
    /\ pc' = pc + 1
    /\ UNCHANGED << host, mount_check, subvol_has_at, mnt, efi, fs, cm_pc,
                    outcome, sink, stdout, trace, cm_returns >>

\* a run_live_command that reports the failure and returns
LiveRaises_Never(check, rc) == FALSE

\* run_live_command: if check and return_code != 0
LiveRaises(check, rc) == check /\ rc # 0

\* log_func(f"Command failed with return code {return_code}")
FailText(rc) ==
    IF rc = 1 THEN "Command failed with return code 1"
    ELSE "Command failed with return code 127"

\* run(cmd) without capture_output: run_live_command(cmd, log_func, dry_run)
RunStreamed ==
    /\ At("run")
    /\ Exec
    /\ LET c == Cur.cmd IN
       IF dry_run
         THEN /\ sink' = Append(sink, Line("dry", c))
              /\ pc' = pc + 1
              /\ UNCHANGED << mnt, efi, fs, outcome, trace >>
       ELSE IF NotFound(c)
         THEN /\ outcome' = "FileNotFoundError"
              /\ UNCHANGED << mnt, efi, fs, pc, sink, trace >>
       ELSE \E rc \in ExitCodes(c) :
              /\ trace' = Append(trace, Spawn(c, rc, pc))
              /\ mnt' = IF rc = 0 THEN MntAfter(c, mnt) ELSE mnt
              /\ efi' = IF rc = 0 THEN EfiAfter(c, efi) ELSE efi
              /\ fs'  = IF rc = 0 THEN FsAfter(c, fs) ELSE fs
              /\ IF LiveRaises(TRUE, rc)
                   THEN /\ sink' = Append(sink \o OutputOf(c), Line("fail", FailText(rc)))
                        /\ outcome' = "CalledProcessError"
                        /\ pc' = pc
                   ELSE /\ sink' = sink \o OutputOf(c)
                        /\ outcome' = outcome
                        /\ pc' = pc + 1
    /\ UNCHANGED << host, locals, cm_pc, stdout, cm_returns >>

\* run_command: except CalledProcessError ... if check: sys.exit(1)
CapturedExits(check, rc) == check /\ rc # 0

\* run(cmd, shell=True, capture_output=True): run_command
RunCaptured ==
    /\ At("capture")
    /\ Exec
    /\ LET c == Cur.cmd IN
       IF dry_run
         THEN /\ stdout' = Append(stdout, Line("dry", c))
              /\ pc' = pc + 1
              /\ UNCHANGED << locals, outcome, trace, fs >>
       ELSE \E rc \in ExitCodes(c) :
              /\ trace' = Append(trace, Spawn(c, rc, pc))
              /\ IF CapturedExits(TRUE, rc)
                   THEN /\ stdout' = stdout \o
                              << Line("error", c), Line("error output", c) >>
                        /\ outcome' = "SystemExit"
                        /\ UNCHANGED << locals, pc, fs >>
                   ELSE /\ stdout' = stdout
                        /\ outcome' = outcome
                        /\ pc' = pc + 1
                        /\ IF c = "blkid"
                             THEN /\ sprout_partuuid' = "PARTUUID"
                                  /\ UNCHANGED << subvol_has_at, fs >>
                             ELSE \E has \in BOOLEAN :
                                    /\ subvol_has_at' = has
                                    /\ fs' = [fs EXCEPT !.subvol_at = has]
                                    /\ UNCHANGED sprout_partuuid
                        /\ UNCHANGED mount_check
    /\ UNCHANGED << host, mnt, efi, cm_pc, sink, cm_returns >>

\* mount_check = subprocess.run(["mountpoint", "-q", "/mnt"], check=False)
MountpointCheck ==
    /\ At("mountpoint")
    /\ Exec
    /\ IF NotFound(Cur.cmd)
         THEN /\ outcome' = "FileNotFoundError"
              /\ UNCHANGED << pc, mount_check, trace >>
         ELSE /\ trace' = Append(trace, Spawn(Cur.cmd, MountpointCode, pc))
              /\ mount_check' = MountpointCode
              /\ pc' = pc + 1
              /\ outcome' = outcome
    /\ UNCHANGED << host, subvol_has_at, sprout_partuuid, mnt, efi, fs, cm_pc,
                    sink, stdout, cm_returns >>

\* with open("/mnt/etc/fstab", "w") as f:
\*     subprocess.run(["genfstab", ...], stdout=f, check=True)
Genfstab ==
    /\ At("genfstab")
    /\ Exec
    /\ LET c == Cur.cmd
           opened == [fs EXCEPT !.fstab = "empty"]
       IN
       IF NotFound(c)
         THEN /\ outcome' = "FileNotFoundError"
              /\ fs' = opened
              /\ UNCHANGED << pc, trace >>
         ELSE \E rc \in ExitCodes(c) :
              /\ trace' = Append(trace, Spawn(c, rc, pc))
              /\ IF rc # 0
                   THEN /\ outcome' = "CalledProcessError"
                        /\ fs' = opened
                        /\ pc' = pc
                   ELSE /\ outcome' = outcome
                        /\ fs' = FsAfter(c, opened)
                        /\ pc' = pc + 1
    /\ UNCHANGED << host, locals, mnt, efi, cm_pc, sink, stdout, cm_returns >>

\* the end of perform_installation
Return ==
    /\ outcome = "running"
    /\ pc = End
    /\ outcome' = "complete"
    /\ UNCHANGED << host, locals, mnt, efi, fs, pc, cm_pc, sink, stdout,
                    trace, cm_returns >>
    /\ UNCHANGED executed

-----------------------------------------------------------------------------
(* cleanup_mount(mount_point, log_func).  Its value is discarded by every  *)
(* call in perform_installation, which goes on with the next statement.    *)

\* return <value>, back in perform_installation
CleanupReturn(value) ==
    /\ cm_returns' = Append(cm_returns, [at |-> pc, value |-> value])
    /\ cm_pc' = "idle"
    /\ pc' = pc + 1

\* subprocess.run(f"umount ... {mount_point}", shell=True): no check, so a
\* failing umount never raises
Umount(c, rc) ==
    /\ trace' = Append(trace, Spawn(c, rc, pc))
    /\ mnt' = IF rc = 0 THEN MntAfter(c, mnt) ELSE mnt
    /\ efi' = IF rc = 0 THEN EfiAfter(c, efi) ELSE efi

\* a first unmount whose status is not looked at
FirstUnmounted_Never(rc) == FALSE

\* line 155: if ret.returncode == 0, after the first unmount
FirstUnmounted(rc) == rc = 0

\* lines 151-156: the first, plain recursive unmount
CleanupFirst ==
    /\ At("cleanup")
    /\ Exec
    /\ sink' = Append(sink, Line("cleanup", "Unmounting..."))
    /\ \E rc \in UmountCodes("umount -R") :
          /\ Umount("umount -R", rc)
          /\ IF FirstUnmounted(rc)
               THEN CleanupReturn(TRUE)
               ELSE /\ cm_pc' = "fuser"
                    /\ UNCHANGED << pc, cm_returns >>
    /\ UNCHANGED << host, locals, fs, outcome, stdout >>

\* lines 158-166: kill the holders when fuser exists
CleanupFuser ==
    /\ outcome = "running"
    /\ cm_pc = "fuser"
    /\ IF which("fuser")
         THEN /\ sink' = sink \o
                    << Line("cleanup", "Unmount failed. Checking for busy processes..."),
                       Line("cleanup", "Killing processes accessing the mount point...") >>
              /\ \E rc \in {0, 1} :
                    trace' = Append(trace, Spawn("fuser -k -m", rc, pc))
         ELSE /\ sink' = sink \o
                    << Line("cleanup", "Unmount failed. Checking for busy processes..."),
                       Line("cleanup", "Warning: 'fuser' not found.") >>
              /\ trace' = trace
    /\ cm_pc' = "retry"
    /\ UNCHANGED << host, locals, mnt, efi, fs, pc, outcome, stdout,
                    cm_returns >>
    /\ UNCHANGED executed

\* a retry that is already the lazy unmount
RetryCommand_Lazy == "umount -R -l"

\* line 169: the command of the retry
RetryCommand == "umount -R"

\* lines 168-171: retry the plain unmount
CleanupRetry ==
    /\ outcome = "running"
    /\ cm_pc = "retry"
    /\ \E rc \in UmountCodes(RetryCommand) :
          /\ Umount(RetryCommand, rc)
          /\ IF rc = 0
               THEN CleanupReturn(TRUE)
               ELSE /\ cm_pc' = "lazy"
                    /\ UNCHANGED << pc, cm_returns >>
    /\ UNCHANGED << host, locals, fs, outcome, sink, stdout >>
    /\ UNCHANGED executed

\* a lazy unmount whose status is not looked at
LazyFailed_Never(rc) == FALSE

\* line 176: if ret.returncode != 0, after the lazy unmount
LazyFailed(rc) == rc # 0

\* lines 173-179: the lazy unmount, the last resort
CleanupLazy ==
    /\ outcome = "running"
    /\ cm_pc = "lazy"
    /\ \E rc \in UmountCodes("umount -R -l") :
          /\ Umount("umount -R -l", rc)
          /\ IF LazyFailed(rc)
               THEN /\ sink' = sink \o
                          << Line("cleanup", "Force/Lazy unmounting..."),
                             Line("cleanup", "Critical: Failed to unmount") >>
                    /\ CleanupReturn(FALSE)
               ELSE /\ sink' = Append(sink, Line("cleanup", "Force/Lazy unmounting..."))
                    /\ CleanupReturn(TRUE)
    /\ UNCHANGED << host, locals, fs, outcome, stdout >>
    /\ UNCHANGED executed

-----------------------------------------------------------------------------

Next ==
    \/ SkipStatement
    \/ CheckDependencies
    \/ Log
    \/ Assign
    \/ RunStreamed
    \/ RunCaptured
    \/ MountpointCheck
    \/ Genfstab
    \/ CleanupFirst
    \/ CleanupFuser
    \/ CleanupRetry
    \/ CleanupLazy
    \/ Return

Spec == Init /\ [][Next]_vars

-----------------------------------------------------------------------------
(* Properties *)

Aborted == {"CalledProcessError", "SystemExit", "FileNotFoundError"}

UmountCmds == {"umount -R", "umount -R -l"}

\* the commands perform_installation runs with check=True
Checked(c) == c \notin UmountCmds \cup {"fuser -k -m", "mountpoint"}

\* C1: with dry_run=true no external process is spawned and no device,
\* mount-table or filesystem state is changed, at every step of the run.
C1_DryRunTouchesNothing ==
    dry_run => /\ trace = << >>
               /\ mnt = mnt0
               /\ efi = FALSE
               /\ fs = FsInit

\* C2 as claimed, for the runs that start with /mnt unmounted (so every mount
\* is the run's own): whenever perform_installation has stopped, /mnt is
\* unmounted.
C2_MntUnmountedWhenStopped ==
    (outcome # "running" /\ mnt0 = << >>) => mnt = << >>

\* C2 as amended: a live run that reaches the completion banner ends with the
\* sprout device mounted at /mnt and the EFI partition at /mnt/efi, and a run
\* aborted by a failing step unmounts nothing on its way out: the last process
\* it started is no umount.
C2_MntLeftAsIs ==
    /\ (outcome = "complete" /\ ~dry_run) =>
          /\ mnt # << >>
          /\ mnt[Len(mnt)] = "sprout:/@"
          /\ efi
          /\ trace[Len(trace)].cmd = "genfstab -t PARTUUID"
    /\ (outcome \in Aborted /\ trace # << >>) =>
          trace[Len(trace)].cmd \notin UmountCmds

C2_Witness ==
    /\ outcome = "complete"
    /\ ~dry_run
    /\ mnt0 = << >>
    /\ mnt = << "sprout:/@" >>

\* C3: in a live run, once a command run with check=True has exited non-zero
\* the caller has the failure (CalledProcessError from streamed execution and
\* from the genfstab calls, SystemExit from captured execution), the failing
\* process is the last one started, and perform_installation is still at the
\* statement that started it: no later step, no retry.
C3_FailFast ==
    \A i \in 1..Len(trace) :
        (Checked(trace[i].cmd) /\ trace[i].rc # 0) =>
            /\ i = Len(trace)
            /\ pc = trace[i].at
            /\ cm_pc = "idle"
            /\ executed[Len(executed)] = pc
            /\ outcome = IF Program[trace[i].at].kind = "capture"
                           THEN "SystemExit" ELSE "CalledProcessError"
            /\ \A j \in 1..(i - 1) : trace[j].at # trace[i].at

C3_Witness ==
    /\ outcome = "CalledProcessError"
    /\ trace # << >>
    /\ trace[Len(trace)].cmd = "arch-chroot"
    /\ trace[Len(trace)].rc # 0
    /\ fs.installed

\* the phase of the state machine a statement of perform_installation belongs
\* to, by its source line; the statements between the dependency check and
\* the first mkfs (PARTUUID read, recovery of a mounted /mnt) count as
\* Preflight
PhaseOf(line) ==
    CASE line <= 223 -> "Preflight"
      [] line <= 229 -> "Format"
      [] line <= 232 -> "MountSeed"
      [] line <= 242 -> "SubvolumeInit"
      [] line <= 246 -> "Pacstrap"
      [] line <= 247 -> "MountEfi"
      [] line <= 254 -> "FstabGenerate"
      [] line <= 285 -> "ChrootConfigure"
      [] line <= 298 -> "ConvertSeed"
      [] line <= 301 -> "AttachSprout"
      [] line <= 305 -> "RemountSprout"
      [] line <= 308 -> "MountEfi"
      [] line <= 315 -> "FinalFstab"
      [] OTHER       -> "Done"

IsPrefix(s, t) == Len(s) <= Len(t) /\ s = SubSeq(t, 1, Len(s))

\* s without immediate repetitions
Compress(s) ==
    LET marked == [i \in 1..Len(s) |->
                      [p |-> s[i], keep |-> (i = 1) \/ (s[i] # s[i - 1])]]
        kept == SelectSeq(marked, LAMBDA e : e.keep)
    IN  [i \in 1..Len(kept) |-> kept[i].p]

\* the phases the run has visited so far, in order
PhasesVisited ==
    Compress([i \in 1..Len(executed) |-> PhaseOf(Program[executed[i]].line)])

ClaimedOrder ==
    << "Preflight", "Format", "MountSeed", "SubvolumeInit", "Pacstrap",
       "FstabGenerate", "ChrootConfigure", "ConvertSeed", "AttachSprout",
       "RemountSprout", "MountEfi", "FinalFstab", "Done" >>

ActualOrder ==
    << "Preflight", "Format", "MountSeed", "SubvolumeInit", "Pacstrap",
       "MountEfi", "FstabGenerate", "ChrootConfigure", "ConvertSeed",
       "AttachSprout", "RemountSprout", "MountEfi", "FinalFstab", "Done" >>

\* C4 as claimed: the phases a run visits are, in order and without
\* repetition, an initial part of Preflight, Format, MountSeed, SubvolumeInit,
\* Pacstrap, FstabGenerate, ChrootConfigure, ConvertSeed, AttachSprout,
\* RemountSprout, MountEfi, FinalFstab, Done.
C4_ClaimedPhaseOrder == IsPrefix(PhasesVisited, ClaimedOrder)

\* C4 as amended: the EFI partition is mounted twice, once between Pacstrap
\* and FstabGenerate and once after RemountSprout; with that first MountEfi
\* added, the phases a run visits are an initial part of the order, the
\* statements are executed in source order, none twice, and a run that
\* completes has visited all of it.
C4_PhaseOrder ==
    /\ IsPrefix(PhasesVisited, ActualOrder)
    /\ \A i \in 1..(Len(executed) - 1) :
          Program[executed[i]].line < Program[executed[i + 1]].line
    /\ outcome = "complete" => PhasesVisited = ActualOrder

C4_Witness ==
    /\ outcome = "complete"
    /\ ~dry_run
    /\ Len(SelectSeq(trace, LAMBDA e : e.cmd = "mount efi" /\ e.rc = 0)) = 2

\* C5: when a required tool is missing, perform_installation stops at the
\* dependency check: the sink has the missing-tools message and nothing else,
\* no process was started and the host is as it was.
C5_MissingToolStopsRun ==
    (required_tools \cap absent # {}) =>
        /\ trace = << >>
        /\ mnt = mnt0
        /\ efi = FALSE
        /\ fs = FsInit
        /\ pc = 1
        /\ \/ outcome = "running" /\ sink = << >>
           \/ /\ outcome = "returned"
              /\ sink = << Line("missing", "Error: Missing required tools") >>

C5_Witness ==
    /\ outcome = "returned"
    /\ absent = {"arch-chroot"}
    /\ Len(sink) = 1

\* C6: a run that passed the dependency check never fails for want of a tool
\* after it has changed a device: no command of a live run ends with the
\* shell's 127 (program not found) or FileNotFoundError once a filesystem has
\* been created.
C6_NoToolMissingAfterPreflight ==
    ~ /\ outcome \in Aborted
      /\ fs.formatted # {}
      /\ \/ outcome = "FileNotFoundError"
         \/ trace[Len(trace)].rc = 127

-----------------------------------------------------------------------------
(* cleanup_mount *)

\* the statements of perform_installation that call cleanup_mount
CleanupCalls == {a \in 1..Len(Program) : Program[a].kind = "cleanup"}

\* the processes the call at statement a has started so far, in order
CallOf(a) == SelectSeq(trace, LAMBDA e : e.at = a)

CmdsOf(s) == [i \in 1..Len(s) |-> s[i].cmd]

Attempts(s) == SelectSeq(s, LAMBDA e : e.cmd \in UmountCmds)

Kills(s) == SelectSeq(s, LAMBDA e : e.cmd = "fuser -k -m")

\* the values the call at statement a has returned (none, or one)
ReturnsOf(a) == SelectSeq(cm_returns, LAMBDA r : r.at = a)

\* the escalation on this host: the kill belongs to it when fuser exists
Stages ==
    IF "fuser" \in absent
      THEN << "umount -R", "umount -R", "umount -R -l" >>
      ELSE << "umount -R", "fuser -k -m", "umount -R", "umount -R -l" >>

\* C7: every cleanup_mount call runs an initial part of plain unmount, kill
\* of the holders (when fuser exists), plain unmount again, lazy unmount, in
\* that order; an unmount that is followed by another stage has failed, and
\* True is returned only with the last stage run having succeeded.
C7_EscalationInOrder ==
    \A a \in CleanupCalls :
        LET s == CallOf(a) IN
        /\ IsPrefix(CmdsOf(s), Stages)
        /\ \A i \in 1..(Len(s) - 1) : s[i].cmd \in UmountCmds => s[i].rc # 0
        /\ \A i \in 1..Len(ReturnsOf(a)) :
              ReturnsOf(a)[i].value =>
                  /\ s # << >>
                  /\ s[Len(s)].cmd \in UmountCmds
                  /\ s[Len(s)].rc = 0

\* a busy /mnt that only the lazy unmount detached, the holders killed before
C7_Witness ==
    \E a \in CleanupCalls :
        /\ ~dry_run
        /\ mnt0 = << >>
        /\ CmdsOf(CallOf(a)) =
              << "umount -R", "fuser -k -m", "umount -R", "umount -R -l" >>
        /\ CallOf(a)[4].rc = 0
        /\ ReturnsOf(a) = << [at |-> a, value |-> TRUE] >>

\* C8: when the first plain unmount succeeds, the call has returned True
\* with that one unmount as its only process: no kill, no lazy unmount.
C8_FirstUnmountSuffices ==
    \A a \in CleanupCalls :
        LET s == CallOf(a) IN
        (s # << >> /\ s[1].rc = 0) =>
            /\ CmdsOf(s) = << "umount -R" >>
            /\ ReturnsOf(a) = << [at |-> a, value |-> TRUE] >>
            /\ pc > a
            /\ Kills(s) = << >>

C8_Witness ==
    \E a \in CleanupCalls :
        /\ ~dry_run
        /\ CallOf(a) = << Spawn("umount -R", 0, a) >>
        /\ ReturnsOf(a) = << [at |-> a, value |-> TRUE] >>
        /\ outcome = "complete"

\* C9: cleanup_mount never raises (the run is never ended by an exception
\* at a cleanup_mount call), a call under way can always take its next step,
\* a call makes at most three unmount attempts and at most one kill, returns
\* once, True iff one of its unmounts succeeded and False exactly when the
\* lazy unmount, its third attempt, failed.
C9_CleanupTotal ==
    /\ cm_pc # "idle" => /\ outcome = "running"
                         /\ pc \in CleanupCalls
                         /\ ENABLED (CleanupFuser \/ CleanupRetry \/ CleanupLazy)
    /\ (outcome # "running" /\ pc < End) => pc \notin CleanupCalls
    /\ \A a \in CleanupCalls :
        LET s == CallOf(a)
            r == ReturnsOf(a)
        IN
        /\ Len(Attempts(s)) <= 3
        /\ Len(Kills(s)) <= 1
        /\ Len(r) <= 1
        /\ (pc > a /\ s # << >>) => Len(r) = 1
        /\ \A i \in 1..Len(r) :
              /\ r[i].value <=> \E k \in 1..Len(s) :
                                    s[k].cmd \in UmountCmds /\ s[k].rc = 0
              /\ ~r[i].value <=> /\ Len(Attempts(s)) = 3
                                 /\ s[Len(s)].cmd = "umount -R -l"
                                 /\ s[Len(s)].rc # 0

\* all three unmounts failed and the call returned False
C9_Witness ==
    \E a \in CleanupCalls :
        /\ ~dry_run
        /\ Len(Attempts(CallOf(a))) = 3
        /\ Len(Kills(CallOf(a))) = 1
        /\ ReturnsOf(a) = << [at |-> a, value |-> FALSE] >>
        /\ mnt # << >>

\* C10: in a live run, once a cleanup_mount call has returned False, no
\* later statement starts a mount, the seed conversion, the device add or an
\* fstab generation.
C10_FailedCleanupAborts ==
    ~dry_run =>
        \A i \in 1..Len(cm_returns) :
            ~cm_returns[i].value =>
                \A j \in 1..Len(trace) :
                    trace[j].at > cm_returns[i].at =>
                        trace[j].cmd \notin
                            { "mount subvol=/ seed", "mount subvol=/@ seed",
                              "mount subvol=/@ sprout", "mount efi",
                              "btrfstune -S 1", "btrfs device add",
                              "genfstab -U", "genfstab -t PARTUUID" }

-----------------------------------------------------------------------------
(* Dry run against live run *)

\* the commands that only read the host
ReadCmds == {"blkid", "mountpoint", "btrfs subvolume list"}

\* the operations a live run performs on a clean host (nothing mounted at
\* /mnt, no stale @, every unmount succeeding at once), in order: one per
\* run(...), fstab write and cleanup_mount call outside of the ifs that only
\* a leftover state takes
PlannedOps ==
    LET sts == SelectSeq(Program,
                   LAMBDA st : /\ st.kind \in {"run", "genfstab", "cleanup"}
                               /\ st.cond \in {"always", "live"})
    IN  [i \in 1..Len(sts) |->
            IF sts[i].kind = "cleanup" THEN "umount -R" ELSE sts[i].cmd]

\* ... which is what such a live run does: its processes, the reads left out
LivePerformsPlannedOps ==
    ( /\ outcome = "complete"
      /\ ~dry_run
      /\ mnt0 = << >>
      /\ ~subvol_has_at
      /\ \A i \in 1..Len(trace) :
            trace[i].cmd \in UmountCmds \cup {"fuser -k -m"} =>
                trace[i].cmd = "umount -R" /\ trace[i].rc = 0 )
    => CmdsOf(SelectSeq(trace, LAMBDA e : e.cmd \notin ReadCmds)) = PlannedOps

DryFstabLines ==
    { "[DRY RUN] Would generate fstab", "[DRY RUN] Would generate final fstab" }

\* the lines of the sink that report an operation (not the narration that a
\* live run logs as well)
OperationLines(lines) ==
    SelectSeq(lines, LAMBDA l : \/ l.kind \in {"dry", "cleanup"}
                                \/ l.text \in DryFstabLines)

\* the operation a line reports
OpOf(l) ==
    CASE l.kind = "dry" -> l.text
      [] l.text = "Unmounting..." -> "umount -R"
      [] l.text = "[DRY RUN] Would generate fstab" -> "genfstab -U"
      [] l.text = "[DRY RUN] Would generate final fstab" -> "genfstab -t PARTUUID"
      [] OTHER -> l.text

ReportedOps(lines) ==
    LET ls == OperationLines(lines) IN [i \in 1..Len(ls) |-> OpOf(ls[i])]

\* C11: a dry run that completes has reported to the sink exactly the
\* operations of the live run, one line each and in the same order; the
\* operation lines start with the mkfs of the seed and of the sprout device,
\* the transcript ends with the completion banner and has no failure line.
C11_DryRunReportsLiveOps ==
    (dry_run /\ outcome = "complete") =>
        /\ ReportedOps(sink) = PlannedOps
        /\ SubSeq(ReportedOps(sink), 1, 2) =
              << "mkfs.btrfs SEED", "mkfs.btrfs SPROUT" >>
        /\ sink[Len(sink)] = Line("status", "banner bottom")
        /\ \A i \in 1..Len(sink) : sink[i].kind # "fail"

\* how many entries of s are x
Count(s, x) == Len(SelectSeq(s, LAMBDA y : y = x))

\* the commands of the "[DRY RUN] Would execute: <command>" lines
DryExecuted(lines) ==
    LET ls == SelectSeq(lines, LAMBDA l : l.kind = "dry")
    IN  [i \in 1..Len(ls) |-> ls[i].text]

\* C12: a dry run that completes has given the sink, for every operation
\* that changes the host in a live run (mkfs, mount, unmount, subvolume
\* create, pacstrap, fstab write, chroot, seed conversion, device add), a
\* line "[DRY RUN] Would execute: <command>", once per time it is planned.
C12_EveryOpHasDryLine ==
    (dry_run /\ outcome = "complete") =>
        \A i \in 1..Len(PlannedOps) :
            Count(DryExecuted(sink), PlannedOps[i]) =
            Count(PlannedOps, PlannedOps[i])

-----------------------------------------------------------------------------
(* The EFI partition *)

\* C13: when the EFI partition is to be reused, no run issues a format
\* command for efi_device, live or as a dry-run line, and a run that
\* completes has still issued the EFI mount.
C13_ReusedEfiNotFormatted ==
    ~format_efi =>
        /\ \A i \in 1..Len(trace) : trace[i].cmd # "mkfs.fat EFI"
        /\ \A i \in 1..Len(sink) :
              ~(sink[i].kind = "dry" /\ sink[i].text = "mkfs.fat EFI")
        /\ outcome = "complete" =>
              \/ \E i \in 1..Len(trace) : trace[i].cmd = "mount efi"
              \/ \E i \in 1..Len(sink) :
                    sink[i].kind = "dry" /\ sink[i].text = "mount efi"

-----------------------------------------------------------------------------
(* SubvolumeInit *)

CleanupCmds == UmountCmds \cup {"fuser -k -m"}

\* the index in trace of the first process after i that cleanup_mount did not
\* start, 0 when there is none
NextAfterCleanup(i) ==
    LET later == {j \in (i + 1)..Len(trace) : trace[j].cmd \notin CleanupCmds}
    IN  IF later = {} THEN 0
        ELSE CHOOSE j \in later : \A k \in later : j <= k

\* C14: in a live run the create of @ is issued at most once, with the seed
\* device mounted at its top-level volume and the subvolumes listed before;
\* when @ is listed, the process right before the create is the delete of @
\* and it succeeded, and no delete is issued otherwise; a create that
\* succeeded is followed by the unmount and then by the mount of the seed
\* device with subvol=/@.
C14_SubvolumeInit ==
    ~dry_run =>
        /\ Count(CmdsOf(trace), "btrfs su cr") <= 1
        /\ \A i \in 1..Len(trace) :
              trace[i].cmd = "btrfs subvolume delete" => subvol_has_at
        /\ \A i \in 1..Len(trace) :
              trace[i].cmd = "btrfs su cr" =>
                LET list == IF subvol_has_at THEN i - 2 ELSE i - 1 IN
                /\ list >= 2
                /\ trace[list] = Spawn("btrfs subvolume list", 0, trace[list].at)
                /\ trace[list - 1] =
                      Spawn("mount subvol=/ seed", 0, trace[list - 1].at)
                /\ subvol_has_at =>
                      trace[i - 1] =
                          Spawn("btrfs subvolume delete", 0, trace[i - 1].at)
                /\ (trace[i].rc = 0 /\ i < Len(trace)) =>
                      /\ trace[i + 1].cmd = "umount -R"
                      /\ NextAfterCleanup(i) # 0 =>
                            trace[NextAfterCleanup(i)].cmd = "mount subvol=/@ seed"
                /\ (trace[i].rc = 0 /\ outcome = "complete") =>
                      NextAfterCleanup(i) # 0

\* a leftover @ deleted, the fresh one created and mounted
C14_Witness ==
    /\ ~dry_run
    /\ subvol_has_at
    /\ \E i \in 2..(Len(trace) - 2) :
          /\ trace[i].cmd = "btrfs su cr" /\ trace[i].rc = 0
          /\ trace[i - 1].cmd = "btrfs subvolume delete"
          /\ trace[i + 1] = Spawn("umount -R", 0, trace[i + 1].at)
          /\ trace[i + 2].cmd = "mount subvol=/@ seed" /\ trace[i + 2].rc = 0

-----------------------------------------------------------------------------
(* ConvertSeed, AttachSprout *)

\* a process of command c that exited 0 is in trace before position i
DoneBefore(c, i) == \E j \in 1..(i - 1) : trace[j].cmd = c /\ trace[j].rc = 0

\* the order of the conversion steps that does not depend on the unmount:
\* the toggle after the chroot configuration, the device add after the toggle
\* and the remount of the seed, the sprout mounted only once added
ConversionStepsInOrder ==
    ~dry_run =>
        \A i \in 1..Len(trace) :
            /\ trace[i].cmd = "btrfstune -S 1" => DoneBefore("arch-chroot", i)
            /\ trace[i].cmd = "btrfs device add" =>
                  /\ DoneBefore("btrfstune -S 1", i)
                  /\ trace[i - 1] = Spawn("mount subvol=/@ seed", 0, trace[i - 1].at)
            /\ trace[i].cmd = "mount subvol=/@ sprout" =>
                  DoneBefore("btrfs device add", i)

\* C15: in a live run btrfstune -S 1 is started only with nothing mounted at
\* /mnt and after the chroot configuration completed; the seed is remounted,
\* the sprout added only after that remount, and the sprout mounted only
\* after it was added.  (btrfstune leaves the mounts alone, so the state in
\* which it is the last process shows the mounts it was started with.)
C15_SeedToggledUnmounted ==
    /\ ConversionStepsInOrder
    /\ (~dry_run /\ trace # << >>
          /\ trace[Len(trace)].cmd = "btrfstune -S 1") => mnt = << >>

-----------------------------------------------------------------------------
(* Failure reports *)

\* the run was stopped by an exception of the statement at pc
Fatal == outcome \in {"CalledProcessError", "SystemExit", "FileNotFoundError"}

\* C16: a run stopped by a failing command (streamed, captured or the direct
\* genfstab call) has, as its last sink line, a failure line whose text names
\* the command of the failing statement; a run stopped by a missing
\* dependency has the missing-tools line as its last sink line.
C16_FailureLineNamesCommand ==
    /\ outcome = "returned" =>
          /\ sink # << >>
          /\ sink[Len(sink)].kind = "missing"
    /\ Fatal =>
          /\ sink # << >>
          /\ sink[Len(sink)].kind = "fail"
          /\ sink[Len(sink)].text = Cur.cmd

\* what the code does deliver: the missing-tools line for a missing
\* dependency, a line with nothing but the return code for a streamed
\* command, and nothing at all for the other failures
FailureLinesDelivered ==
    /\ outcome = "returned" =>
          sink[Len(sink)] = Line("missing", "Error: Missing required tools")
    /\ (outcome = "CalledProcessError" /\ Cur.kind = "run") =>
          sink[Len(sink)] = Line("fail", FailText(trace[Len(trace)].rc))
    /\ (Fatal /\ ~(outcome = "CalledProcessError" /\ Cur.kind = "run")) =>
          \A i \in 1..Len(sink) : sink[i].kind \notin {"fail", "missing"}

-----------------------------------------------------------------------------
(* The chroot script.  A command is the sequence of the pieces its text is *)
(* made of; the pieces in braces stand for configuration values that no    *)
(* claim is about.                                                         *)

\* the PARTUUID rewrite put before grub-mkconfig writes the file it edits
install_script_RewriteBeforeMkconfig ==
    << << "hwclock", "--systohc" >>,
       << "echo", "{config.hostname}", ">", "/etc/hostname" >>,
       << "echo", "KEYMAP=us", ">", "/etc/vconsole.conf" >>,
       << "sed", "-i", "s/^#en_US.UTF-8 UTF-8/en_US.UTF-8 UTF-8/",
          "/etc/locale.gen" >>,
       << "locale-gen" >>,
       << "echo", "LANG=en_US.UTF-8", ">", "/etc/locale.conf" >>,
       << "ln", "-sf", "/usr/share/zoneinfo/{config.timezone}",
          "/etc/localtime" >>,
       << "sed", "-i", "s/^HOOKS=.*/HOOKS=({mkinitcpio_hooks})/",
          "/etc/mkinitcpio.conf" >>,
       << "echo", "root:", root_password, "|", "chpasswd" >>,
       << "useradd", "-m", "-G", "wheel", "-s", "/usr/bin/bash",
          "{config.username}" >>,
       << "echo", "{config.username}:", user_password, "|", "chpasswd" >>,
       << "echo", "{config.username} ALL=(ALL:ALL) ALL", ">",
          "/etc/sudoers.d/{config.username}" >>,
       << "systemctl", "enable", "systemd-timesyncd" >>,
       << "grub-install", "{grub_options}" >>,
       << "echo", "GRUB_DISABLE_OS_PROBER=false", ">>", "/etc/default/grub" >>,
       << "sed", "-i", "s/root=UUID=[A-Fa-f0-9-]*/root=PARTUUID=",
          sprout_partuuid, "/g", "/boot/grub/grub.cfg" >>,
       << "grub-mkconfig", "-o", "/boot/grub/grub.cfg" >>,
       << "passwd", "-l", "root" >>,
       << "mkinitcpio", "-P" >> >>

\* install_script (z.py:260-280)
install_script ==
    << << "hwclock", "--systohc" >>,
       << "echo", "{config.hostname}", ">", "/etc/hostname" >>,
       << "echo", "KEYMAP=us", ">", "/etc/vconsole.conf" >>,
       << "sed", "-i", "s/^#en_US.UTF-8 UTF-8/en_US.UTF-8 UTF-8/",
          "/etc/locale.gen" >>,
       << "locale-gen" >>,
       << "echo", "LANG=en_US.UTF-8", ">", "/etc/locale.conf" >>,
       << "ln", "-sf", "/usr/share/zoneinfo/{config.timezone}",
          "/etc/localtime" >>,
       << "sed", "-i", "s/^HOOKS=.*/HOOKS=({mkinitcpio_hooks})/",
          "/etc/mkinitcpio.conf" >>,
       << "echo", "root:", root_password, "|", "chpasswd" >>,
       << "useradd", "-m", "-G", "wheel", "-s", "/usr/bin/bash",
          "{config.username}" >>,
       << "echo", "{config.username}:", user_password, "|", "chpasswd" >>,
       << "echo", "{config.username} ALL=(ALL:ALL) ALL", ">",
          "/etc/sudoers.d/{config.username}" >>,
       << "systemctl", "enable", "systemd-timesyncd" >>,
       << "grub-install", "{grub_options}" >>,
       << "echo", "GRUB_DISABLE_OS_PROBER=false", ">>", "/etc/default/grub" >>,
       << "grub-mkconfig", "-o", "/boot/grub/grub.cfg" >>,
       << "sed", "-i", "s/root=UUID=[A-Fa-f0-9-]*/root=PARTUUID=",
          sprout_partuuid, "/g", "/boot/grub/grub.cfg" >>,
       << "passwd", "-l", "root" >>,
       << "mkinitcpio", "-P" >> >>

\* "\n".join(lines)
RECURSIVE Join(_)
Join(lines) ==
    IF lines = << >> THEN << >>
    ELSE IF Len(lines) = 1 THEN lines[1]
    ELSE lines[1] \o << "\n" >> \o Join(Tail(lines))

\* full_script = "\n".join(install_script)
full_script == Join(install_script)

\* the text of a command as run_live_command formats it into a line: the
\* chroot step is the argument list with the whole script as its last
\* argument, every other command is the text the model names it by
CommandText(c) ==
    IF c = "arch-chroot"
      THEN << "arch-chroot", "/mnt", "/usr/bin/bash", "-c" >> \o full_script
      ELSE << c >>

\* the text of a sink line
TextOf(l) ==
    IF l.kind = "dry"
      THEN << "[DRY RUN] Would execute: " >> \o CommandText(l.text)
      ELSE << l.text >>

Pieces(text) == {text[i] : i \in 1..Len(text)}

\* the lines of the sink that a process wrote are not the orchestrator's
Own(lines) == SelectSeq(lines, LAMBDA l : l.kind # "output")

\* C17: no sink line that perform_installation or run_live_command produce
\* themselves (status, dry-run and failure lines) contains root_password or
\* user_password, live or dry.
C17_PasswordsNotLogged ==
    \A i \in 1..Len(Own(sink)) :
        /\ root_password \notin Pieces(TextOf(Own(sink)[i]))
        /\ user_password \notin Pieces(TextOf(Own(sink)[i]))

\* the live half of it: only the dry-run line of the chroot step has them
LiveSinkFreeOfPasswords ==
    \A i \in 1..Len(Own(sink)) :
        Own(sink)[i] # Line("dry", "arch-chroot") =>
            /\ root_password \notin Pieces(TextOf(Own(sink)[i]))
            /\ user_password \notin Pieces(TextOf(Own(sink)[i]))

-----------------------------------------------------------------------------
(* ChrootConfigure *)

\* the positions in a script of the commands that have this piece
Where(script, piece) ==
    {i \in 1..Len(script) : piece \in Pieces(script[i])}

\* perform_installation has reached run(["arch-chroot", ..., full_script])
AtChroot == outcome = "running" /\ pc < End /\ Cur.cmd = "arch-chroot"

\* C18: in a live run the chroot step is started once, after blkid gave the
\* PARTUUID of the sprout device, and with the whole script as one
\* invocation; in the script it is given, the rewrite to
\* root=PARTUUID=<sprout_partuuid> stands after grub-install and after
\* grub-mkconfig and before passwd -l root and mkinitcpio -P, which are the
\* last two commands.
C18_ChrootScriptOrder ==
    /\ Cardinality({i \in 1..Len(Program) : Program[i].cmd = "arch-chroot"}) = 1
    /\ ~dry_run =>
          /\ Count(CmdsOf(trace), "arch-chroot") <= 1
          /\ \A i \in 1..Len(trace) :
                trace[i].cmd = "arch-chroot" =>
                    /\ DoneBefore("blkid", i)
                    /\ sprout_partuuid = "PARTUUID"
    /\ AtChroot =>
          LET script == install_script
              n == Len(script)
              rewrite == Where(script, "s/root=UUID=[A-Fa-f0-9-]*/root=PARTUUID=")
              grub == Where(script, "grub-install") \cup
                      Where(script, "grub-mkconfig")
          IN
          /\ Len(CommandText("arch-chroot")) = 4 + Len(Join(script))
          /\ Cardinality(rewrite) = 1
          /\ Cardinality(grub) = 2
          /\ \A r \in rewrite :
                /\ sprout_partuuid \in Pieces(script[r])
                /\ \A g \in grub : g < r
                /\ r < n - 1
          /\ Where(script, "passwd") = {n - 1}
          /\ Where(script, "mkinitcpio") = {n}

\* the chroot step of a live run completed, with the PARTUUID read before
C18_Witness ==
    /\ ~dry_run
    /\ fs.configured
    /\ sprout_partuuid = "PARTUUID"
    /\ \E i \in 2..Len(trace) :
          /\ trace[i].cmd = "arch-chroot" /\ trace[i].rc = 0
          /\ trace[1] = Spawn("blkid", 0, trace[1].at)

-----------------------------------------------------------------------------
(* The kernel-parameter rewrite of install_script,                         *)
(*   sed -i 's/root=UUID=[A-Fa-f0-9-]*/root=PARTUUID={sprout_partuuid}/g', *)
(* as a function on the text of grub.cfg.  The text is a sequence of       *)
(* pieces: "root=", "UUID=", "PART", "a" (one character of [A-Fa-f0-9-]),  *)
(* "x" (any other text without a newline) and "\n".                        *)

Pieces_grub == {"root=", "UUID=", "PART", "a", "x", "\n"}

\* every text of at most MaxFileLen pieces
Files == UNION {[1..k -> Pieces_grub] : k \in 0..MaxFileLen}

\* a rewrite whose pattern lacks the leading root=
SedPattern_NoRoot == << "UUID=" >>

\* the fixed part of the pattern: root=UUID=
SedPattern == << "root=", "UUID=" >>

\* [A-Fa-f0-9-]
Hex(piece) == piece = "a"

\* the replacement: root=PARTUUID={sprout_partuuid}; a PARTUUID is made of
\* hexadecimal digits and dashes
SedReplacement == << "root=", "PART", "UUID=", "a" >>

\* [A-Fa-f0-9-]* is greedy: the number of pieces it takes at the start of t
RECURSIVE HexRun(_)
HexRun(t) == IF t # << >> /\ Hex(Head(t)) THEN 1 + HexRun(Tail(t)) ELSE 0

Drop(t, n) == SubSeq(t, n + 1, Len(t))

\* s/.../.../g on one line: left to right, every match replaced, the scan
\* going on behind the match in the original text
RECURSIVE SubstLine(_)
SubstLine(line) ==
    IF line = << >> THEN << >>
    ELSE IF IsPrefix(SedPattern, line)
      THEN LET rest == Drop(line, Len(SedPattern))
           IN  SedReplacement \o SubstLine(Drop(rest, HexRun(rest)))
    ELSE << Head(line) >> \o SubstLine(Tail(line))

\* the lines of a text
RECURSIVE Split(_)
Split(text) ==
    LET nl == {i \in 1..Len(text) : text[i] = "\n"} IN
    IF nl = {} THEN << text >>
    ELSE LET k == CHOOSE i \in nl : \A j \in nl : i <= j
         IN  << SubSeq(text, 1, k - 1) >> \o Split(Drop(text, k))

\* sed reads the file line by line, applies the s command to each, and
\* writes each line once
Sed(text) ==
    LET lines == Split(text)
    IN  Join([i \in 1..Len(lines) |-> SubstLine(lines[i])])

install_vars ==
    << dry_run, root_password, user_password, format_efi, absent, mnt0, mnt,
       efi, fs, pc, cm_pc, mount_check, subvol_has_at, sprout_partuuid,
       outcome, sink, stdout, trace, cm_returns, executed >>

\* any grub.cfg, in a chroot that has reached the rewrite
SedInit ==
    /\ dry_run = FALSE
    /\ root_password = "secret-a"
    /\ user_password = "secret-b"
    /\ format_efi = TRUE
    /\ absent = {}
    /\ mnt0 = << >>
    /\ mnt = << "seed:/@" >>
    /\ efi = TRUE
    /\ fs = [FsInit EXCEPT !.formatted = {"seed", "sprout", "efi"},
                           !.subvol_at = TRUE, !.installed = TRUE,
                           !.fstab = "UUID"]
    /\ pc = CHOOSE i \in 1..Len(Program) : Program[i].cmd = "arch-chroot"
    /\ cm_pc = "idle"
    /\ mount_check = 32
    /\ subvol_has_at = FALSE
    /\ sprout_partuuid = "PARTUUID"
    /\ outcome = "running"
    /\ sink = << >>
    /\ stdout = << >>
    /\ trace = << >>
    /\ cm_returns = << >>
    /\ executed = << >>
    /\ grub_cfg \in Files
    /\ sed_orig = grub_cfg
    /\ sed_first = << >>
    /\ sed_runs = 0
    /\ UiIdle

\* the sed command of install_script runs on grub.cfg
SedRewrite ==
    /\ sed_runs < MaxSedRuns
    /\ grub_cfg' = Sed(grub_cfg)
    /\ sed_first' = IF sed_runs = 0 THEN Sed(grub_cfg) ELSE sed_first
    /\ sed_runs' = sed_runs + 1
    /\ UNCHANGED << install_vars, sed_orig, ui_vars >>

SedNext == SedRewrite

SedSpec == SedInit /\ [][SedNext]_vars

\* the number of places where p occurs in t
Occurrences(p, t) ==
    Cardinality({i \in 1..(Len(t) - Len(p) + 1) :
                    SubSeq(t, i, i + Len(p) - 1) = p})

\* C19: the rewrite applied again to a grub.cfg it was applied to gives the
\* same text as the first application; in the result no root=UUID= is left,
\* every root=UUID=<hex> of the original reads root=PARTUUID=, and the lines
\* are as many as before, with the other text unchanged.
C19_RewriteIdempotent ==
    sed_runs >= 1 =>
        /\ grub_cfg = sed_first
        /\ Occurrences(<< "root=", "UUID=" >>, grub_cfg) = 0
        /\ Occurrences(<< "root=", "PART", "UUID=" >>, grub_cfg) =
              Occurrences(<< "root=", "PART", "UUID=" >>, sed_orig)
              + Occurrences(<< "root=", "UUID=" >>, sed_orig)
        /\ Count(grub_cfg, "\n") = Count(sed_orig, "\n")
        /\ Len(Split(grub_cfg)) = Len(Split(sed_orig))
        /\ Count(grub_cfg, "x") = Count(sed_orig, "x")

\* a two-line grub.cfg with a root=UUID=<hex> parameter, rewritten twice
C19_Witness ==
    /\ sed_runs = 2
    /\ Occurrences(<< "root=", "UUID=", "a" >>, sed_orig) = 1
    /\ Count(sed_orig, "\n") = 1
    /\ grub_cfg # sed_orig
    /\ Occurrences(SedReplacement, grub_cfg) = 1

-----------------------------------------------------------------------------
(* InitialFstab, FinalFstab *)

\* C20: a live run that reaches the completion banner has written
\* /mnt/etc/fstab exactly twice: with genfstab -U after pacstrap completed
\* and before the chroot step is started, and with genfstab -t PARTUUID as
\* its last process, after the sprout device and then the EFI partition were
\* mounted; only log lines follow it.
C20_FstabWrittenTwice ==
    (outcome = "complete" /\ ~dry_run) =>
        LET n == Len(trace) IN
        /\ Count(CmdsOf(trace), "genfstab -U") = 1
        /\ Count(CmdsOf(trace), "genfstab -t PARTUUID") = 1
        /\ \A i \in 1..n :
              trace[i].cmd = "genfstab -U" =>
                  /\ trace[i].rc = 0
                  /\ DoneBefore("pacstrap", i)
                  /\ ~DoneBefore("arch-chroot", i)
                  /\ \E j \in (i + 1)..n : trace[j].cmd = "arch-chroot"
        /\ trace[n] = Spawn("genfstab -t PARTUUID", 0, trace[n].at)
        /\ trace[n - 1] = Spawn("mount efi", 0, trace[n - 1].at)
        /\ trace[n - 2] = Spawn("mount subvol=/@ sprout", 0, trace[n - 2].at)
        /\ \A k \in (trace[n].at + 1)..Len(Program) :
              Program[k].kind = "log" \/ Program[k].cond = "dry"
        /\ fs.fstab = "PARTUUID"

\* a completed live run, its fstab keyed by PARTUUID
C20_Witness ==
    /\ outcome = "complete"
    /\ ~dry_run
    /\ fs.fstab = "PARTUUID"
    /\ Count(CmdsOf(trace), "genfstab -U") = 1
    /\ trace[Len(trace)].cmd = "genfstab -t PARTUUID"

-----------------------------------------------------------------------------
(* The sink *)

\* the processes run_live_command started, in order
Streamed == SelectSeq(trace, LAMBDA e : Program[e.at].kind = "run")

\* the commands whose first output line is in lines, in order
Blocks(lines) ==
    LET first == SelectSeq(lines, LAMBDA l : l.kind = "output" /\ l.n = 1)
    IN  [i \in 1..Len(first) |-> first[i].text]

\* the log statements executed, in order
LogsExecuted == SelectSeq(executed, LAMBDA a : Program[a].kind = "log")

\* C21: in a live run the output lines of every streamed process are in the
\* sink in the order the process wrote them and as one block; the blocks are
\* in the order the processes were started; a failure line stands right
\* behind the whole output of the failing process and is the last line; a
\* status line stands behind the whole output of every process started by an
\* earlier statement and before the output of every later one; and a
\* statement behind a streamed one runs only when the process has exited.
\* (The sink only grows, so the lines are looked at when the run has ended.)
C21_SinkInOrder ==
    (~dry_run /\ outcome # "running") =>
        /\ \A i \in 1..Len(sink) :
              sink[i].kind = "output" =>
                  /\ sink[i].n \in 1..OutLines
                  /\ sink[i].n > 1 =>
                        sink[i - 1] = OutLine(sink[i].text, sink[i].n - 1)
                  /\ sink[i].n < OutLines =>
                        /\ i < Len(sink)
                        /\ sink[i + 1] = OutLine(sink[i].text, sink[i].n + 1)
        /\ Blocks(sink) = CmdsOf(Streamed)
        /\ \A i \in 1..Len(sink) :
              sink[i].kind = "fail" =>
                  /\ i = Len(sink)
                  /\ i > 1
                  /\ sink[i - 1] = OutLine(Cur.cmd, OutLines)
                  /\ sink[i].text = FailText(trace[Len(trace)].rc)
        /\ \A i \in 1..Len(sink) :
              sink[i].kind = "status" =>
                  LET before == SubSeq(sink, 1, i)
                      rank == Len(SelectSeq(before, LAMBDA l : l.kind = "status"))
                      a == LogsExecuted[rank]
                  IN  /\ sink[i].text = Program[a].cmd
                      /\ Len(SelectSeq(before, LAMBDA l : l.kind = "output")) =
                            OutLines *
                            Len(SelectSeq(Streamed, LAMBDA e : e.at < a))
        /\ \A k \in 1..Len(executed) :
              (Program[executed[k]].kind = "run" /\ k < Len(executed)) =>
                  \E j \in 1..Len(trace) :
                      trace[j].at = executed[k] /\ trace[j].rc = 0

\* a streamed command that wrote its lines and failed, after others that
\* wrote theirs
C21_Witness ==
    /\ ~dry_run
    /\ outcome = "CalledProcessError"
    /\ Len(Streamed) >= 3
    /\ Len(sink) > 2
    /\ sink[Len(sink)].kind = "fail"
    /\ sink[Len(sink) - 1] = OutLine(Cur.cmd, OutLines)
    /\ sink[Len(sink) - 2] = OutLine(Cur.cmd, OutLines - 1)

-----------------------------------------------------------------------------
(* /mnt as a mount point *)

MkfsCmds == {"mkfs.btrfs SEED", "mkfs.btrfs SPROUT", "mkfs.fat EFI"}

\* the commands that mount a device at /mnt itself
MntMounts == {"mount subvol=/ seed", "mount subvol=/@ seed", "mount subvol=/@ sprout"}

\* what the code does when /mnt is a mount point at the start of a live run:
\* the mountpoint check, then cleanup_mount, before any mkfs
LeftoverCleanupCalled ==
    (~dry_run /\ mnt0 # << >>) =>
        \A i \in 1..Len(trace) :
            trace[i].cmd \in MkfsCmds =>
                \E j, k \in 1..(i - 1) :
                    /\ j < k
                    /\ trace[j] = Spawn("mountpoint", 0, trace[j].at)
                    /\ trace[k].cmd \in UmountCmds
                    /\ Program[trace[k].at].line = 223

\* C24: in a live run started with /mnt mounted, cleanup_mount("/mnt") is
\* called behind the dependency check and before the first mkfs, and no mkfs
\* is started while the leftover mount is still at /mnt.  (A mkfs leaves the
\* mounts alone, so the state in which it is the last process shows the
\* mounts it was started with.)
C24_NoMkfsOverLeftoverMount ==
    /\ LeftoverCleanupCalled
    /\ (~dry_run /\ trace # << >> /\ trace[Len(trace)].cmd \in MkfsCmds) =>
          mnt = << >>

\* every unmount so far succeeded
UnmountsSucceeded ==
    \A i \in 1..Len(trace) : trace[i].cmd \in UmountCmds => trace[i].rc = 0

\* C25: in a live run in which every unmount succeeds, at most one device is
\* mounted at /mnt at any time, a mount at /mnt that succeeded is the only
\* one there, between two mount commands for /mnt there is an unmount of a
\* cleanup_mount call, and /mnt/efi is a mount point only while a device is
\* mounted at /mnt.
C25_MountsOnlyWhenUnmounted ==
    (~dry_run /\ UnmountsSucceeded) =>
        /\ Len(mnt) <= 1
        /\ efi => mnt # << >>
        /\ \A i \in 1..Len(trace) :
              trace[i].cmd \in MntMounts =>
                  /\ (mnt0 # << >>) =>
                        \E k \in 1..(i - 1) : trace[k].cmd \in UmountCmds
                  /\ \A j \in 1..(i - 1) :
                        trace[j].cmd \in MntMounts =>
                            \E k \in (j + 1)..(i - 1) :
                                /\ trace[k].cmd \in UmountCmds
                                /\ Program[trace[k].at].kind = "cleanup"
        /\ (trace # << >> /\ trace[Len(trace)].cmd \in MntMounts
              /\ trace[Len(trace)].rc = 0) => Len(mnt) = 1

\* a completed live run that found /mnt mounted and unmounted it every time
C25_Witness ==
    /\ ~dry_run
    /\ UnmountsSucceeded
    /\ mnt0 # << >>
    /\ outcome = "complete"
    /\ mnt = << "sprout:/@" >>
    /\ efi
    /\ Count(CmdsOf(trace), "umount -R") = 4

-----------------------------------------------------------------------------
(* The user interfaces: main() of z.py and the screens of z_tui.py.  A run *)
(* of perform_installation is seen from outside here: it delivers lines to *)
(* its log_func and ends in one of its outcomes.                           *)

\* the most lines one run delivers to the log
MaxWorkerLines == 2

\* get_partitions(selected_disk): the paths offered for selection
Partitions == {"/dev/vda1", "/dev/vda2", "/dev/vda3"}

\* the value of a Select nothing was selected in
NoSelection == ""

\* the values typed into a password field
Typed == {"", "pw", "other"}

\* how perform_installation ends: it returns (banner or preflight abort) or
\* an exception or sys.exit leaves it
RunOutcomes == {"complete", "returned"} \cup Aborted

\* InstallConfig(seed_device=..., sprout_device=..., efi_device=..., ...)
Config == [seed |-> seed_device, sprout |-> sprout_device, efi |-> efi_device]

sed_vars == << grub_cfg, sed_orig, sed_first, sed_runs >>

UiInit ==
    /\ dry_run = FALSE
    /\ root_password = "secret-a"
    /\ user_password = "secret-b"
    /\ format_efi = TRUE
    /\ absent = {}
    /\ mnt0 = << >>
    /\ mnt = << >>
    /\ efi = FALSE
    /\ fs = FsInit
    /\ pc = 1
    /\ cm_pc = "idle"
    /\ mount_check = -1
    /\ subvol_has_at = FALSE
    /\ sprout_partuuid = ""
    /\ outcome = "running"
    /\ sink = << >>
    /\ stdout = << >>
    /\ trace = << >>
    /\ cm_returns = << >>
    /\ executed = << >>
    /\ grub_cfg = << >>
    /\ sed_orig = << >>
    /\ sed_first = << >>
    /\ sed_runs = 0
    /\ flow \in {"cli", "tui"}
    /\ cli_pc = IF flow = "cli" THEN "seed" ELSE "none"
    /\ screen_stack = IF flow = "tui" THEN << "disk_select" >> ELSE << >>
    /\ app_running = (flow = "tui")
    /\ notified = ""
    /\ seed_device = NoSelection
    /\ sprout_device = NoSelection
    /\ efi_device = NoSelection
    /\ runs = << >>
    /\ workers = << >>
    /\ worker_outcome = "running"
    /\ timer = "none"
    /\ btn_done_disabled = TRUE
    /\ install_log = << >>

\* a screen that gets events although another screen was pushed over it
Active_Covered(screen) ==
    /\ app_running
    /\ \E i \in 1..Len(screen_stack) : screen_stack[i] = screen

\* the screen whose widgets get the events: the last one pushed
Active(screen) ==
    /\ app_running
    /\ screen_stack # << >>
    /\ screen_stack[Len(screen_stack)] = screen

\* self.app.push_screen(name)
push_screen(name) == screen_stack' = Append(screen_stack, name)

\* main(): seed_device = select_part(...), and so on; select_option returns
\* one of the options it was given
CliSelectPart ==
    /\ flow = "cli"
    /\ cli_pc \in {"seed", "sprout", "efi"}
    /\ \E choice \in Partitions :
          CASE cli_pc = "seed" ->
                  /\ seed_device' = choice
                  /\ cli_pc' = "sprout"
                  /\ UNCHANGED << sprout_device, efi_device >>
            [] cli_pc = "sprout" ->
                  /\ sprout_device' = choice
                  /\ cli_pc' = "efi"
                  /\ UNCHANGED << seed_device, efi_device >>
            [] cli_pc = "efi" ->
                  /\ efi_device' = choice
                  /\ cli_pc' = "confirm"
                  /\ UNCHANGED << seed_device, sprout_device >>
    /\ UNCHANGED << install_vars, sed_vars, flow, screen_stack, app_running,
                    notified, runs, workers, worker_outcome, timer,
                    btn_done_disabled, install_log >>

\* main(): resp = input("Confirm formatting and installation? (yes/no): ")
\* and, on yes, config = InstallConfig(...); perform_installation(config)
CliConfirm ==
    /\ flow = "cli"
    /\ cli_pc = "confirm"
    /\ \E yes \in BOOLEAN :
          IF yes
            THEN /\ runs' = Append(runs, Config)
                 /\ cli_pc' = "run"
            ELSE /\ runs' = runs
                 /\ cli_pc' = "exit"
    /\ UNCHANGED << install_vars, sed_vars, flow, screen_stack, app_running,
                    notified, seed_device, sprout_device, efi_device, workers,
                    worker_outcome, timer, btn_done_disabled, install_log >>

\* main(): perform_installation(config) returns or raises
CliRunEnds ==
    /\ flow = "cli"
    /\ cli_pc = "run"
    /\ \E o \in RunOutcomes :
          /\ worker_outcome' = o
          /\ cli_pc' = IF o \in Aborted THEN "exit" ELSE "reboot?"
    /\ UNCHANGED << install_vars, sed_vars, flow, screen_stack, app_running,
                    notified, seed_device, sprout_device, efi_device, runs,
                    workers, timer, btn_done_disabled, install_log >>

\* DiskSelectScreen.on_data_table_row_selected (the Next button of the
\* screen is enabled by this handler only, which leaves the screen)
DiskRowSelected ==
    /\ Active("disk_select")
    /\ push_screen("partition_select")
    /\ UNCHANGED << install_vars, sed_vars, flow, cli_pc, app_running,
                    notified, seed_device, sprout_device, efi_device, runs,
                    workers, worker_outcome, timer, btn_done_disabled,
                    install_log >>

\* PartitionSelectScreen.on_button_pressed
PartitionNext ==
    /\ Active("partition_select")
    /\ \E s \in Partitions \cup {NoSelection},
          p \in Partitions \cup {NoSelection},
          e \in Partitions \cup {NoSelection} :
          /\ seed_device' = s
          /\ sprout_device' = p
          /\ efi_device' = e
          /\ IF s = NoSelection \/ p = NoSelection \/ e = NoSelection
               THEN /\ notified' = "Please select all partitions"
                    /\ UNCHANGED screen_stack
               ELSE /\ push_screen("config")
                    /\ UNCHANGED notified
    /\ UNCHANGED << install_vars, sed_vars, flow, cli_pc, app_running, runs,
                    workers, worker_outcome, timer, btn_done_disabled,
                    install_log >>

\* ConfigScreen.on_button_pressed (the conf_* values it stores are not part
\* of the state)
ConfigNext ==
    /\ Active("config")
    /\ \E r1 \in Typed, r2 \in Typed, u1 \in Typed, u2 \in Typed :
          IF r1 # r2
            THEN /\ notified' = "Root passwords do not match"
                 /\ UNCHANGED screen_stack
          ELSE IF u1 # u2
            THEN /\ notified' = "User passwords do not match"
                 /\ UNCHANGED screen_stack
          ELSE IF r1 = "" \/ u1 = ""
            THEN /\ notified' = "Passwords cannot be empty"
                 /\ UNCHANGED screen_stack
          ELSE /\ push_screen("packages")
               /\ UNCHANGED notified
    /\ UNCHANGED << install_vars, sed_vars, flow, cli_pc, app_running,
                    seed_device, sprout_device, efi_device, runs, workers,
                    worker_outcome, timer, btn_done_disabled, install_log >>

\* PackageScreen.on_button_pressed
PackagesNext ==
    /\ Active("packages")
    /\ push_screen("summary")
    /\ UNCHANGED << install_vars, sed_vars, flow, cli_pc, app_running,
                    notified, seed_device, sprout_device, efi_device, runs,
                    workers, worker_outcome, timer, btn_done_disabled,
                    install_log >>

\* SummaryScreen.on_button_pressed, btn_quit
SummaryQuit ==
    /\ Active("summary")
    /\ app_running' = FALSE
    /\ UNCHANGED << install_vars, sed_vars, flow, cli_pc, screen_stack,
                    notified, seed_device, sprout_device, efi_device, runs,
                    workers, worker_outcome, timer, btn_done_disabled,
                    install_log >>

\* SummaryScreen.on_button_pressed, btn_install, and InstallScreen.on_mount:
\* the worker is created with the configuration and started, the timer set
SummaryInstall ==
    /\ Active("summary")
    /\ push_screen("install")
    /\ runs' = Append(runs, Config)
    /\ workers' = Append(workers, "alive")
    /\ worker_outcome' = "running"
    /\ timer' = "running"
    /\ UNCHANGED << install_vars, sed_vars, flow, cli_pc, app_running,
                    notified, seed_device, sprout_device, efi_device,
                    btn_done_disabled, install_log >>

\* the lines the workers have written to the Log widget
WorkerLines == SelectSeq(install_log, LAMBDA l : l = "line")

\* InstallWork.run: perform_installation calls log_func = write_log, in the
\* worker thread.  Log.write_line is not made for calls from another thread
\* than the application's: the line is written, or the call raises and the
\* exception ends perform_installation and the thread.
WorkerLogs ==
    /\ \E w \in 1..Len(workers) :
          /\ workers[w] = "alive"
          /\ Len(WorkerLines) < MaxWorkerLines
          /\ \E written \in BOOLEAN :
                IF written
                  THEN /\ install_log' = Append(install_log, "line")
                       /\ UNCHANGED << workers, worker_outcome >>
                  ELSE /\ workers' = [workers EXCEPT ![w] = "dead"]
                       /\ worker_outcome' = "write_log raised"
                       /\ UNCHANGED install_log
    /\ UNCHANGED << install_vars, sed_vars, flow, cli_pc, screen_stack,
                    app_running, notified, seed_device, sprout_device,
                    efi_device, runs, timer, btn_done_disabled >>

\* InstallWork.run: perform_installation returns, or an exception or
\* SystemExit leaves it; either way run() is over and the thread is dead
WorkerEnds ==
    /\ \E w \in 1..Len(workers) :
          /\ workers[w] = "alive"
          /\ \E o \in RunOutcomes :
                /\ workers' = [workers EXCEPT ![w] = "dead"]
                /\ worker_outcome' = o
    /\ UNCHANGED << install_vars, sed_vars, flow, cli_pc, screen_stack,
                    app_running, notified, seed_device, sprout_device,
                    efi_device, runs, timer, btn_done_disabled, install_log >>

\* a check_done that does not look at the worker
is_alive_Ignored == FALSE

\* self.worker.is_alive(), self.worker being the thread on_mount started
is_alive == workers # << >> /\ workers[Len(workers)] = "alive"

\* InstallScreen.check_done, called by the timer every 0.5 s
check_done ==
    /\ app_running
    /\ timer = "running"
    /\ IF ~is_alive
         THEN /\ timer' = "stopped"
              /\ btn_done_disabled' = FALSE
              /\ install_log' = Append(install_log, "--- Process Finished ---")
         ELSE UNCHANGED << timer, btn_done_disabled, install_log >>
    /\ UNCHANGED << install_vars, sed_vars, flow, cli_pc, screen_stack,
                    app_running, notified, seed_device, sprout_device,
                    efi_device, runs, workers, worker_outcome >>

\* InstallScreen.on_button_pressed, btn_done
InstallDone ==
    /\ Active("install")
    /\ ~btn_done_disabled
    /\ app_running' = FALSE
    /\ UNCHANGED << install_vars, sed_vars, flow, cli_pc, screen_stack,
                    notified, seed_device, sprout_device, efi_device, runs,
                    workers, worker_outcome, timer, btn_done_disabled,
                    install_log >>

UiNext ==
    \/ CliSelectPart
    \/ CliConfirm
    \/ CliRunEnds
    \/ DiskRowSelected
    \/ PartitionNext
    \/ ConfigNext
    \/ PackagesNext
    \/ SummaryQuit
    \/ SummaryInstall
    \/ WorkerLogs
    \/ WorkerEnds
    \/ check_done
    \/ InstallDone

UiSpec == UiInit /\ [][UiNext]_vars

\* what both interfaces do check: every device has a value
RunsHaveAllDevices ==
    \A i \in 1..Len(runs) :
        /\ runs[i].seed # NoSelection
        /\ runs[i].sprout # NoSelection
        /\ runs[i].efi # NoSelection

\* C22: every configuration perform_installation is called with, from
\* main() or from the TUI, has a seed, a sprout and an EFI device, and the
\* three are different paths.
C22_DevicesDistinct ==
    /\ RunsHaveAllDevices
    /\ \A i \in 1..Len(runs) :
          /\ runs[i].seed # runs[i].sprout
          /\ runs[i].seed # runs[i].efi
          /\ runs[i].sprout # runs[i].efi

-----------------------------------------------------------------------------
(* One worker *)

\* the InstallWork threads that are alive
AliveWorkers == {w \in 1..Len(workers) : workers[w] = "alive"}

\* C23: whatever the sequence of button presses, row selections and timer
\* ticks, at most one InstallWork thread is alive, and perform_installation
\* is not called again while one is.
C23_OneWorker ==
    /\ Cardinality(AliveWorkers) <= 1
    /\ Len(workers) <= 1
    /\ AliveWorkers # {} => Len(runs) = 1

\* the worker at work, the install screen over the summary screen, the timer
\* ticking
C23_Witness ==
    /\ flow = "tui"
    /\ AliveWorkers = {1}
    /\ Active("install")
    /\ \E i \in 1..Len(screen_stack) : screen_stack[i] = "summary"
    /\ timer = "running"
    /\ WorkerLines # << >>

-----------------------------------------------------------------------------
(* The observer *)

\* the timer set by set_interval(0.5, self.check_done) keeps calling
\* check_done until it is stopped
UiLiveSpec == UiInit /\ [][UiNext]_vars /\ WF_vars(check_done)

Finished == "--- Process Finished ---"

\* the worker thread was started and has terminated
WorkerOver == workers # << >> /\ AliveWorkers = {}

\* the observer has reported the end of the run
Reported == Count(install_log, Finished) = 1 /\ ~btn_done_disabled

\* the report is there at most once, only with the worker terminated, behind
\* every line of the worker, and the Done button is enabled with it only
ReportedOnceWorkerOver ==
    /\ Count(install_log, Finished) <= 1
    /\ Count(install_log, Finished) = 1 =>
          /\ WorkerOver
          /\ install_log[Len(install_log)] = Finished
          /\ ~btn_done_disabled
          /\ timer = "stopped"
    /\ ~btn_done_disabled => Count(install_log, Finished) = 1

\* C26: in the TUI, once the worker thread has terminated, whatever the
\* outcome of perform_installation, the observer eventually writes
\* "--- Process Finished ---" and enables the Done button; the line is
\* written once, never while the worker is alive, and is the last line of
\* the log.
C26_ObserverReportsEnd ==
    /\ []ReportedOnceWorkerOver
    /\ WorkerOver ~> Reported

\* the end of a run that a failing command stopped, reported behind its lines
C26_Witness ==
    /\ flow = "tui"
    /\ worker_outcome = "CalledProcessError"
    /\ Len(WorkerLines) = MaxWorkerLines
    /\ Reported
    /\ install_log = Append(WorkerLines, Finished)

====
